---- MODULE Spec2Model ----
(***************************************************************************)
(* Model of the `reference` crate: Reference<T> (src/src/lib.rs) built on  *)
(* the fixed-capacity append-only Array<T> (src/src/array.rs).             *)
(*                                                                         *)
(* Shared state is the Array (raw cells, atomic len, capacity), the index  *)
(* vids behind its RwLock and the effective_len counter.  Every call of a  *)
(* client thread is split at the points where it touches shared state:     *)
(* one step per atomic load, per raw write, per fetch_add and per locked   *)
(* section of the index.  The RwLock guards only the index look-up and the *)
(* index insertion, so each of those is one step; nothing else in          *)
(* Reference::add is under the lock.                                       *)
(***************************************************************************)
EXTENDS Integers, Sequences, FiniteSets, TLC

\* ---------------------------------------------------------------- bounds
\* Largest capacity handed to Reference::new.
MaxCapacity == 3
\* Identifiers are 0..MaxId (0 is the identifier of the zero element).
MaxId == 2
\* Total number of calls the two concurrent clients make.
MaxCalls == 2
\* Total number of calls a single client makes.
MaxSeqCalls == 3

\* Two client threads share the Reference.
Threads == {1, 2}
Ids == 0..MaxId
\* Payloads of an item (the `name` of Foo in the tests): two values tell a
\* replacement from what it replaced.
Names == {1, 2}

\* ------------------------------------------------------------ data values
\* Option<T> as stored in a cell of the Array: None, Some(item), or memory
\* that alloc returned and nobody wrote yet.
None == [tag |-> "None", id |-> 0, name |-> 0]
Uninit == [tag |-> "Uninit", id |-> 0, name |-> 0]
Some(k, n) == [tag |-> "Some", id |-> k, name |-> n]
Items == {Some(k, n) : k \in Ids, n \in Names}
\* What a read of an Option<T> can produce.
Contents == {None} \cup Items
\* Identifiable::id of an item.
ItemId(item) == item.id

NoVid == -1

\* Results of calls.
NoRes == [kind |-> "none", pos |-> NoVid, cap |-> 0]
Ok(p) == [kind |-> "Ok", pos |-> p, cap |-> 0]
SomeEntry(p) == [kind |-> "Some", pos |-> p, cap |-> 0]
NoneEntry == [kind |-> "None", pos |-> NoVid, cap |-> 0]
InsertError == [kind |-> "InsertError", pos |-> NoVid, cap |-> 0]
UpdateError == [kind |-> "UpdateError", pos |-> NoVid, cap |-> 0]
\* OtherCapacityExceeded as it would be if the error reported the number of
\* cells left for items beside the zero element.
OtherCapacityExceededBesideZero(c) == [kind |-> "CapacityExceeded", pos |-> NoVid, cap |-> c - 1]

\* Error::Other(Box<array::Error::CapacityExceeded { capacity }>)
OtherCapacityExceeded(c) == [kind |-> "CapacityExceeded", pos |-> NoVid, cap |-> c]
Panicked == [kind |-> "Panic", pos |-> NoVid, cap |-> 0]
IterEnd == [kind |-> "IterEnd", pos |-> NoVid, cap |-> 0]

VARIABLES
    requested,      \* the argument of Reference::new
    built,          \* Reference::new returned (FALSE: it panicked)
    capacity,       \* Array.capacity
    items,          \* the allocation: cell index -> Option<T> or Uninit
    len,            \* Array.len (AtomicUsize)
    vids,           \* the index: Id -> position (a function on the mapped ids)
    effective_len,  \* Reference.effective_len (AtomicUsize)
    th,             \* per thread: the call in progress and its locals
    handed,         \* Entries the clients hold: <<id asked for, position>>
    touched,        \* non-zero ids for which insert or get_or_reserve was ever called
    last,           \* per id: content installed by the latest completed write
    order,          \* ids in the order their first insert or reservation returned
    calls           \* number of calls started

vars == <<requested, built, capacity, items, len, vids, effective_len, th,
          handed, touched, last, order, calls>>

\* A thread that is in no call.
Idle == [pc |-> "idle", op |-> "none", id |-> 0, item |-> None, vid |-> NoVid,
         plen |-> 0, res |-> NoRes, ilen |-> 0, idx |-> 0, out |-> <<>>,
         fresh |-> FALSE]

\* No write through this id has completed yet.
NoWrite == [tag |-> "NoWrite", id |-> 0, name |-> 0]

\* ------------------------------------------------------------------ Array
\* ArrayNew as it would be if the allocation had one cell more than asked.
ArrayNewPlusOne(c) == [i \in 0..c |-> Uninit]

\* Array::new: the allocation holds exactly `capacity` cells, none written.
ArrayNew(c) == [i \in 0..(c - 1) |-> Uninit]

\* Array::push, the capacity test on the length it loaded.
PushFull(l, c) == l >= c

\* Array::get_mut: Some(idx) inside the logical length, None outside.
GetMut(idx, l) == IF idx < l THEN idx ELSE NoVid

\* IterHasNext as it would be if next() tested the live length of the Array.
IterHasNextLive(i, n) == i < len

\* Iter::next, the test that ends the iteration: the index against the
\* length stored in the iterator.
IterHasNext(i, n) == i < n

\* Entry::deref / Iter::next reading cell p.  A cell the program never wrote,
\* or a position past the allocation, holds whatever the memory holds.
Reads(p) == IF p \in DOMAIN items /\ items[p] # Uninit THEN {items[p]} ELSE Contents

\* Entry::deref on the Entry e = <<id, position>>: it returns self.0, the
\* address of the cell itself; nothing is copied and no count is held.
Deref(e) == e[2]

\* ------------------------------------------------------------------ index
\* vids.get(&id).copied()
VidsGet(id) == IF id \in DOMAIN vids THEN vids[id] ELSE NoVid

\* vids.insert(id, vid): a HashMap insert replaces an existing mapping.
VidsInsert(id, vid) == [k \in DOMAIN vids \cup {id} |-> IF k = id THEN vid ELSE vids[k]]

\* GetResult as it would be if a missing id fell back to the zero element
\* (unwrap_or_default on the look-up).
GetResultDefaultZero(id) ==
    LET vid == IF id \in DOMAIN vids THEN vids[id] ELSE 0 IN
    IF GetMut(vid, len) = NoVid THEN NoneEntry ELSE SomeEntry(vid)

\* Reference::get as a function of the state: the look-up and get_mut run
\* under one read guard.
GetResult(id) ==
    LET vid == VidsGet(id) IN
    IF vid = NoVid THEN NoneEntry
    ELSE IF GetMut(vid, len) = NoVid THEN NoneEntry ELSE SomeEntry(vid)

\* -------------------------------------------------------------------- Init
\* NewCapacity as it would be with one extra cell for the zero element.
NewCapacityPlusOne(c) == c + 1

\* Reference::new(capacity) hands its argument to Array::new unchanged.
NewCapacity(c) == c

\* Reference::new(capacity): Array::new(capacity), push(None), vids = {0 -> 0},
\* effective_len = 0.  push fails on a zero capacity and `expect` panics.
Init ==
    /\ requested \in 0..MaxCapacity
    /\ capacity = NewCapacity(requested)
    /\ built = ~PushFull(0, capacity)
    /\ items = IF built THEN [ArrayNew(capacity) EXCEPT ![0] = None]
               ELSE ArrayNew(capacity)
    /\ len = IF built THEN 1 ELSE 0
    /\ vids = IF built THEN [k \in {0} |-> 0] ELSE [k \in {} |-> 0]
    /\ effective_len = 0
    /\ th = [t \in Threads |-> Idle]
    /\ handed = {}
    /\ touched = {}
    /\ last = [k \in Ids |-> NoWrite]
    /\ order = <<>>
    /\ calls = 0

\* A thread can start a call.  The threads are interchangeable, so they make
\* their first calls in the order of their numbers.
Ready(t, L) ==
    /\ built
    /\ th[t].pc \in {"idle", "done"}
    /\ calls < L
    /\ \A u \in Threads : u < t => th[u].pc # "idle"

\* The call of thread t returns r; its locals die, what the caller sees stays.
Return(t, r) ==
    [Idle EXCEPT !.pc = "done", !.op = th[t].op, !.id = th[t].id, !.item = th[t].item,
                 !.fresh = th[t].fresh, !.ilen = th[t].ilen, !.out = th[t].out,
                 !.res = r]

\* --------------------------------------------------------- Reference::insert
\* insert, up to the end of the read-locked block: the look-up of item.id().
InsertLookup(t, item, L) ==
    /\ Ready(t, L)
    /\ LET id == ItemId(item)
           maybe_vid == VidsGet(id)
           call == [Idle EXCEPT !.op = "insert", !.id = id, !.item = item]
       IN  th' = [th EXCEPT ![t] =
                    IF maybe_vid = NoVid /\ id \in DOMAIN vids
                    THEN [call EXCEPT !.pc = "done", !.res = InsertError]
                    ELSE IF maybe_vid = NoVid
                    THEN [call EXCEPT !.pc = "add_len", !.fresh = TRUE]
                    ELSE [call EXCEPT !.pc = "insert_replace", !.vid = maybe_vid]]
    /\ touched' = touched \cup ({ItemId(item)} \ {0})
    /\ calls' = calls + 1
    /\ UNCHANGED <<requested, built, capacity, items, len, vids, effective_len,
                   handed, last, order>>

\* InsertReplace as it would be if a registered id were refused ("Failed to
\* add id {} because it already exists").
InsertReplaceRejects(t) ==
    /\ th[t].pc = "insert_replace"
    /\ th' = [th EXCEPT ![t] = Return(t, InsertError)]
    /\ UNCHANGED <<requested, built, capacity, items, len, vids, effective_len,
                   handed, touched, last, order, calls>>

\* InsertReplace as it would be if a registered id were left as it is
\* (the item dropped, the old Entry returned).
InsertReplaceKeepsOld(t) ==
    /\ th[t].pc = "insert_replace"
    /\ effective_len' = effective_len + 1
    /\ th' = [th EXCEPT ![t] = Return(t, Ok(th[t].vid))]
    /\ handed' = handed \cup {<<th[t].id, th[t].vid>>}
    /\ last' = [last EXCEPT ![th[t].id] = th[t].item]
    /\ UNCHANGED <<requested, built, capacity, items, len, vids, touched, order, calls>>

\* InsertReplace as it would be in an append-only store: the new content goes
\* to a fresh cell and the index is pointed at it (in place when full).
InsertReplaceAppends(t) ==
    /\ th[t].pc = "insert_replace"
    /\ LET vid == IF PushFull(len, capacity) THEN th[t].vid ELSE len IN
       /\ items' = [items EXCEPT ![vid] = th[t].item]
       /\ len' = IF PushFull(len, capacity) THEN len ELSE len + 1
       /\ vids' = VidsInsert(th[t].id, vid)
       /\ effective_len' = effective_len + 1
       /\ th' = [th EXCEPT ![t] = Return(t, Ok(vid))]
       /\ handed' = handed \cup {<<th[t].id, vid>>}
       /\ last' = [last EXCEPT ![th[t].id] = th[t].item]
    /\ UNCHANGED <<requested, built, capacity, touched, order, calls>>

\* insert, the Some(vid) arm: get_mut(vid), *item_ref = Some(item),
\* effective_len.fetch_add(1), Ok(Entry(item_ref)).
InsertReplace(t) ==
    /\ th[t].pc = "insert_replace"
    /\ LET vid == th[t].vid IN
       IF GetMut(vid, len) = NoVid
       THEN /\ th' = [th EXCEPT ![t] = Return(t, InsertError)]
            /\ UNCHANGED <<items, effective_len, handed, last>>
       ELSE /\ items' = [items EXCEPT ![vid] = th[t].item]
            /\ effective_len' = effective_len + 1
            /\ th' = [th EXCEPT ![t] = Return(t, Ok(vid))]
            /\ handed' = handed \cup {<<th[t].id, vid>>}
            /\ last' = [last EXCEPT ![th[t].id] = th[t].item]
    /\ UNCHANGED <<requested, built, capacity, len, vids, touched, order, calls>>

\* ------------------------------------------------------------ Reference::add
\* AddLen as it would be if add registered the id at the position it is about
\* to push to, before the push.
AddLenRegistersFirst(t) ==
    /\ th[t].pc = "add_len"
    /\ th' = [th EXCEPT ![t].vid = len, ![t].pc = "push_len"]
    /\ vids' = VidsInsert(th[t].id, len)
    /\ UNCHANGED <<requested, built, capacity, items, len, effective_len,
                   handed, touched, last, order, calls>>

\* add: let vid = self.items.len()
AddLen(t) ==
    /\ th[t].pc = "add_len"
    /\ th' = [th EXCEPT ![t].vid = len, ![t].pc = "push_len"]
    /\ UNCHANGED <<requested, built, capacity, items, len, vids, effective_len,
                   handed, touched, last, order, calls>>

\* PushLen as it would be if a full Array made room for the next push after
\* reporting the error (a Vec-like reallocation).
PushLenReallocates(t) ==
    /\ th[t].pc = "push_len"
    /\ capacity' = IF PushFull(len, capacity) THEN capacity + 1 ELSE capacity
    /\ th' = [th EXCEPT ![t] =
                IF PushFull(len, capacity)
                THEN Return(t, OtherCapacityExceeded(capacity))
                ELSE [th[t] EXCEPT !.plen = len, !.pc = "push_write"]]
    /\ UNCHANGED <<requested, built, items, len, vids, effective_len,
                   handed, touched, last, order, calls>>

\* PushLen as it would be if push took its slot with fetch_add before the
\* capacity test.
PushLenTakesSlotFirst(t) ==
    /\ th[t].pc = "push_len"
    /\ len' = IF PushFull(len, capacity) THEN len + 1 ELSE len
    /\ th' = [th EXCEPT ![t] =
                IF PushFull(len, capacity)
                THEN Return(t, OtherCapacityExceeded(capacity))
                ELSE [th[t] EXCEPT !.plen = len, !.pc = "push_write"]]
    /\ UNCHANGED <<requested, built, capacity, items, vids, effective_len,
                   handed, touched, last, order, calls>>

\* Array::push: let len = self.len(); the capacity test.  The error is
\* wrapped by add as Error::Other and returned.
PushLen(t) ==
    /\ th[t].pc = "push_len"
    /\ th' = [th EXCEPT ![t] =
                IF PushFull(len, capacity)
                THEN Return(t, OtherCapacityExceeded(capacity))
                ELSE [th[t] EXCEPT !.plen = len, !.pc = "push_write"]]
    /\ UNCHANGED <<requested, built, capacity, items, len, vids, effective_len,
                   handed, touched, last, order, calls>>

\* Array::push: ptr::write(self.ptr.add(len), item)
PushWrite(t) ==
    /\ th[t].pc = "push_write"
    /\ items' = [items EXCEPT ![th[t].plen] = th[t].item]
    /\ th' = [th EXCEPT ![t].pc = "push_inc"]
    /\ UNCHANGED <<requested, built, capacity, len, vids, effective_len, handed,
                   touched, last, order, calls>>

\* Array::push: self.len.fetch_add(1)
PushInc(t) ==
    /\ th[t].pc = "push_inc"
    /\ len' = len + 1
    /\ th' = [th EXCEPT ![t].pc = "add_insert"]
    /\ UNCHANGED <<requested, built, capacity, items, vids, effective_len, handed,
                   touched, last, order, calls>>

\* add: effective_len.fetch_add(1); vids.write().insert(id, vid);
\* Ok(Entry(self.items.get_mut(vid).unwrap()))
AddInsert(t) ==
    /\ th[t].pc = "add_insert"
    /\ effective_len' = effective_len + 1
    /\ vids' = VidsInsert(th[t].id, th[t].vid)
    /\ order' = IF th[t].id \in DOMAIN vids THEN order ELSE Append(order, th[t].id)
    /\ IF GetMut(th[t].vid, len) = NoVid
       THEN /\ th' = [th EXCEPT ![t] = Return(t, Panicked)]
            /\ UNCHANGED <<handed, last>>
       ELSE /\ th' = [th EXCEPT ![t] = Return(t, Ok(th[t].vid))]
            /\ handed' = handed \cup {<<th[t].id, th[t].vid>>}
            /\ last' = IF th[t].op = "insert"
                       THEN [last EXCEPT ![th[t].id] = th[t].item]
                       ELSE last
    /\ UNCHANGED <<requested, built, capacity, items, len, touched, calls>>

\* ------------------------------------------------------------ Reference::get
Get(t, id, L) ==
    /\ Ready(t, L)
    /\ LET r == GetResult(id) IN
       /\ th' = [th EXCEPT ![t] =
                   [Idle EXCEPT !.op = "get", !.id = id, !.pc = "done", !.res = r]]
       /\ handed' = IF r.kind = "Some" THEN handed \cup {<<id, r.pos>>} ELSE handed
    /\ calls' = calls + 1
    /\ UNCHANGED <<requested, built, capacity, items, len, vids, effective_len,
                   touched, last, order>>

\* ------------------------------------------------- Reference::get_or_reserve
\* GetOrReserve as it would be without the look-up: always add(id, None).
GetOrReserveAlwaysAdds(t, id, L) ==
    /\ Ready(t, L)
    /\ th' = [th EXCEPT ![t] =
                [Idle EXCEPT !.op = "get_or_reserve", !.id = id, !.pc = "add_len",
                             !.item = None, !.fresh = TRUE]]
    /\ touched' = touched \cup ({id} \ {0})
    /\ calls' = calls + 1
    /\ UNCHANGED <<requested, built, capacity, items, len, vids, effective_len,
                   handed, last, order>>

\* GetOrReserve as it would be if a reservation that found its id were
\* counted in effective_len like one that created a slot.
GetOrReserveCountsFound(t, id, L) ==
    /\ Ready(t, L)
    /\ LET r == GetResult(id)
           call == [Idle EXCEPT !.op = "get_or_reserve", !.id = id]
       IN
       /\ th' = [th EXCEPT ![t] =
                   IF r.kind = "Some"
                   THEN [call EXCEPT !.pc = "done", !.res = Ok(r.pos)]
                   ELSE [call EXCEPT !.pc = "add_len", !.item = None, !.fresh = TRUE]]
       /\ handed' = IF r.kind = "Some" THEN handed \cup {<<id, r.pos>>} ELSE handed
       /\ effective_len' = IF r.kind = "Some" THEN effective_len + 1 ELSE effective_len
    /\ touched' = touched \cup ({id} \ {0})
    /\ calls' = calls + 1
    /\ UNCHANGED <<requested, built, capacity, items, len, vids, last, order>>

\* match self.get(id): Some(entry) => Ok(entry), None => self.add(id, None)
GetOrReserve(t, id, L) ==
    /\ Ready(t, L)
    /\ LET r == GetResult(id)
           call == [Idle EXCEPT !.op = "get_or_reserve", !.id = id]
       IN
       /\ th' = [th EXCEPT ![t] =
                   IF r.kind = "Some"
                   THEN [call EXCEPT !.pc = "done", !.res = Ok(r.pos)]
                   ELSE [call EXCEPT !.pc = "add_len", !.item = None, !.fresh = TRUE]]
       /\ handed' = IF r.kind = "Some" THEN handed \cup {<<id, r.pos>>} ELSE handed
    /\ touched' = touched \cup ({id} \ {0})
    /\ calls' = calls + 1
    /\ UNCHANGED <<requested, built, capacity, items, len, vids, effective_len,
                   last, order>>

\* ----------------------------------------------------------- Reference::iter
\* iter -> Array::iter -> Iter::new: the length is loaded once.
IterNew(t, L) ==
    /\ Ready(t, L)
    /\ th' = [th EXCEPT ![t] =
                [Idle EXCEPT !.op = "iter", !.pc = "iter_next", !.ilen = len]]
    /\ calls' = calls + 1
    /\ UNCHANGED <<requested, built, capacity, items, len, vids, effective_len,
                   handed, touched, last, order>>

\* IterNext as it would be if the iterator moved each item out of its cell
\* (Option::take), leaving None behind.
IterNextTakes(t) ==
    /\ th[t].pc = "iter_next"
    /\ IF IterHasNext(th[t].idx, th[t].ilen)
       THEN /\ \E v \in Reads(th[t].idx) :
                  th' = [th EXCEPT ![t].out = Append(@, v), ![t].idx = @ + 1]
            /\ items' = [items EXCEPT ![th[t].idx] = None]
       ELSE /\ th' = [th EXCEPT ![t] = Return(t, IterEnd)]
            /\ items' = items
    /\ UNCHANGED <<requested, built, capacity, len, vids, effective_len,
                   handed, touched, last, order, calls>>

\* Iter::next: yields the cell at idx (as Option<&T>), or ends.
IterNext(t) ==
    /\ th[t].pc = "iter_next"
    /\ IF IterHasNext(th[t].idx, th[t].ilen)
       THEN \E v \in Reads(th[t].idx) :
                th' = [th EXCEPT ![t].out = Append(@, v), ![t].idx = @ + 1]
       ELSE th' = [th EXCEPT ![t] = Return(t, IterEnd)]
    /\ UNCHANGED <<requested, built, capacity, items, len, vids, effective_len,
                   handed, touched, last, order, calls>>

\* ------------------------------------------------------------------- Entry
\* An Entry is the address of one cell; e = <<id it was obtained for, position>>.
\* EntryReplace as it would be if an Entry held a private copy of its cell:
\* the replacement is recorded for the caller and the cell stays as it was.
EntryReplaceDetached(t, e, item, L) ==
    /\ Ready(t, L)
    /\ e \in handed
    /\ th' = [th EXCEPT ![t] = [Idle EXCEPT !.op = "replace", !.pc = "done",
                                             !.res = Ok(e[2])]]
    /\ last' = [last EXCEPT ![e[1]] = item]
    /\ calls' = calls + 1
    /\ UNCHANGED <<requested, built, capacity, items, len, vids, effective_len,
                   handed, touched, order>>

\* Entry::replace: *self.0 = Some(item)
EntryReplace(t, e, item, L) ==
    /\ Ready(t, L)
    /\ e \in handed
    /\ items' = [items EXCEPT ![e[2]] = item]
    /\ th' = [th EXCEPT ![t] = [Idle EXCEPT !.op = "replace", !.pc = "done",
                                             !.res = Ok(e[2])]]
    /\ last' = [last EXCEPT ![e[1]] = item]
    /\ calls' = calls + 1
    /\ UNCHANGED <<requested, built, capacity, len, vids, effective_len, handed,
                   touched, order>>

\* What a closure handed to Entry::update can leave in the cell it is given:
\* the cell as it was, the entity with another payload, or None (take()).
UpdateOutcomes(e, cur) ==
    {cur, None} \cup {Some(IF cur.tag = "Some" THEN cur.id ELSE e[1], n) : n \in Names}

\* Entry::update: f(self.0).map_err(UpdateError).  f works on the cell itself;
\* c is what f left in the cell, ok whether f returned Ok.
EntryUpdate(t, e, ok, L) ==
    /\ Ready(t, L)
    /\ e \in handed
    /\ \E cur \in Reads(e[2]) : \E c \in UpdateOutcomes(e, cur) :
          /\ items' = [items EXCEPT ![e[2]] = c]
          /\ last' = [last EXCEPT ![e[1]] = c]
    /\ th' = [th EXCEPT ![t] = [Idle EXCEPT !.op = "update", !.pc = "done",
                                             !.res = IF ok THEN Ok(e[2]) ELSE UpdateError]]
    /\ calls' = calls + 1
    /\ UNCHANGED <<requested, built, capacity, len, vids, effective_len, handed,
                   touched, order>>

\* ------------------------------------------------------------------- Next
\* The steps of thread t, which may start at most L calls in all.
Step(t, L) ==
    \/ \E item \in Items : InsertLookup(t, item, L)
    \/ InsertReplace(t)
    \/ AddLen(t)
    \/ PushLen(t)
    \/ PushWrite(t)
    \/ PushInc(t)
    \/ AddInsert(t)
    \/ \E id \in Ids : Get(t, id, L)
    \/ \E id \in Ids : GetOrReserve(t, id, L)
    \/ IterNew(t, L)
    \/ IterNext(t)
    \/ \E e \in handed, item \in Items : EntryReplace(t, e, item, L)
    \/ \E e \in handed, ok \in BOOLEAN : EntryUpdate(t, e, ok, L)

\* The threads share the Reference and their steps interleave.
Next == \E t \in Threads : Step(t, MaxCalls)

Spec == Init /\ [][Next]_vars

\* One thread uses the Reference: every history is sequential.
SeqNext == Step(1, MaxSeqCalls)

SeqSpec == Init /\ [][SeqNext]_vars

\* ------------------------------------------------- unsynchronized cell access
\* Entry::replace and Entry::deref take no lock and the cell is a plain
\* Option<T>: the store `*self.0 = Some(item)` is not atomic.  Below it is
\* split into the two parts of the value it writes, in either order, so that
\* stores and reads of two threads on one cell interleave part by part.

\* The parts of an Option<Foo> a store writes separately: the id field, and
\* the rest (the name, whose bytes also tell Some from None).
StoreParts == {"id", "rest"}

\* The cell after one part of `item` has been stored into it.
StorePart(cell, item, part) ==
    IF part = "id" THEN [cell EXCEPT !.id = item.id]
    ELSE [cell EXCEPT !.tag = item.tag, !.name = item.name]

\* What a reader that matches on the Option sees in a cell: the bytes under
\* a None are not looked at.
View(c) == IF c.tag = "None" THEN None ELSE c

\* The store after new(requested), requested >= 2, and get_or_reserve(1) by
\* the thread that then handed the Entry to the two client threads: position
\* 1 is registered for id 1 and still empty.
RaceInit ==
    /\ requested \in 2..MaxCapacity
    /\ capacity = NewCapacity(requested)
    /\ built = TRUE
    /\ items = [ArrayNew(capacity) EXCEPT ![0] = None, ![1] = None]
    /\ len = 2
    /\ vids = [k \in {0, 1} |-> k]
    /\ effective_len = 1
    /\ th = [t \in Threads |-> Idle]
    /\ handed = {<<1, 1>>}
    /\ touched = {1}
    /\ last = [k \in Ids |-> NoWrite]
    /\ order = <<1>>
    /\ calls = 1

\* Entry::replace, the first part of the store `*self.0 = Some(item)`.
ReplaceStoreFirst(t, e, item, part) ==
    /\ th[t].pc = "idle"
    /\ e \in handed
    /\ items' = [items EXCEPT ![Deref(e)] = StorePart(@, item, part)]
    /\ th' = [th EXCEPT ![t] =
                [Idle EXCEPT !.op = "replace", !.id = e[1], !.vid = Deref(e),
                             !.item = item,
                             !.pc = IF part = "id" THEN "store_rest" ELSE "store_id"]]
    /\ calls' = calls + 1
    /\ UNCHANGED <<requested, built, capacity, len, vids, effective_len, handed,
                   touched, last, order>>

\* Entry::replace, the other part of the store; replace returns.
ReplaceStoreSecond(t) ==
    /\ th[t].pc \in {"store_id", "store_rest"}
    /\ items' = [items EXCEPT ![th[t].vid] =
                    StorePart(@, th[t].item, IF th[t].pc = "store_id" THEN "id" ELSE "rest")]
    /\ th' = [th EXCEPT ![t].pc = "done", ![t].res = Ok(th[t].vid)]
    /\ last' = [last EXCEPT ![th[t].id] = th[t].item]
    /\ UNCHANGED <<requested, built, capacity, len, vids, effective_len, handed,
                   touched, order, calls>>

\* A read through an Entry (deref, then a look at the Option): it sees the
\* cell as it is at that moment.
EntryRead(t, e) ==
    /\ th[t].pc = "idle"
    /\ e \in handed
    /\ \E v \in Reads(Deref(e)) :
          th' = [th EXCEPT ![t] =
                   [Idle EXCEPT !.op = "deref", !.pc = "done", !.id = e[1],
                                !.item = View(v), !.res = SomeEntry(Deref(e))]]
    /\ calls' = calls + 1
    /\ UNCHANGED <<requested, built, capacity, items, len, vids, effective_len,
                   handed, touched, last, order>>

\* Each client thread makes one access through its Entry.
RaceStep(t) ==
    \/ \E e \in handed, item \in Items, part \in StoreParts :
          ReplaceStoreFirst(t, e, item, part)
    \/ ReplaceStoreSecond(t)
    \/ \E e \in handed : EntryRead(t, e)

RaceNext == \E t \in Threads : RaceStep(t)

RaceSpec == RaceInit /\ [][RaceNext]_vars

\* ------------------------------------------------------- the index lock
\* The same calls with the RwLock of the index made explicit: a call that
\* reaches vids.read() or vids.write() waits there until the lock admits it,
\* and holds the guard up to the point where the code drops it.  Who holds
\* the lock is read off the threads' positions.

\* ReadHeld as it would be if the guard taken by insert and get_or_reserve
\* lived until the end of the call (the look-up written as the scrutinee of
\* the match that calls add).
ReadHeldThroughAdd(t) ==
    th[t].pc \in {"insert_locked", "get_locked", "gor_locked", "insert_replace",
                  "add_len", "push_len", "push_write", "push_inc", "add_insert",
                  "vids_write"}

\* Thread t holds a read guard of vids: in insert from `self.vids.read()` to
\* the end of the block (lib.rs 242-254), in get from `self.vids.read()` to
\* the end of the match (lib.rs 284-287; get_or_reserve calls get).
ReadHeld(t) == th[t].pc \in {"insert_locked", "get_locked", "gor_locked"}

\* WriteHeld as it would be if add took the write guard before the push and
\* held it over the whole registration.
WriteHeldOverPush(t) ==
    th[t].pc \in {"push_len", "push_write", "push_inc", "add_insert", "vids_write",
                  "vids_insert"}

\* Thread t holds the write guard of vids: only inside the statement
\* `self.vids.write().insert(id, vid)` (lib.rs 278).
WriteHeld(t) == th[t].pc = "vids_insert"

\* RwLock::read returns: no other thread holds the write guard.
CanRead(t) == \A u \in Threads \ {t} : ~WriteHeld(u)

\* RwLock::write returns: nobody holds a read guard (the caller included) and
\* no other thread holds the write guard.
CanWrite(t) ==
    /\ \A u \in Threads : ~ReadHeld(u)
    /\ \A u \in Threads \ {t} : ~WriteHeld(u)

\* A thread can make its call: each of the two threads makes one.
LockReady(t) ==
    /\ built
    /\ th[t].pc = "idle"
    /\ \A u \in Threads : u < t => th[u].pc # "idle"

\* A call starts: insert(item), get(id), get_or_reserve(id) reach vids.read().
LockCall(t, op, id, item) ==
    /\ LockReady(t)
    /\ th' = [th EXCEPT ![t] =
                [Idle EXCEPT !.op = op, !.id = id, !.item = item, !.pc = "vids_read"]]
    /\ touched' = IF op = "get" THEN touched ELSE touched \cup ({id} \ {0})
    /\ calls' = calls + 1
    /\ UNCHANGED <<requested, built, capacity, items, len, vids, effective_len,
                   handed, last, order>>

\* self.vids.read() returns its guard.
LockRead(t) ==
    /\ th[t].pc = "vids_read"
    /\ CanRead(t)
    /\ th' = [th EXCEPT ![t].pc = CASE th[t].op = "insert" -> "insert_locked"
                                    [] th[t].op = "get" -> "get_locked"
                                    [] OTHER -> "gor_locked"]
    /\ UNCHANGED <<requested, built, capacity, items, len, vids, effective_len,
                   handed, touched, last, order, calls>>

\* insert, the read-locked block: the look-up; the guard is dropped at its end.
LockInsertLookup(t) ==
    /\ th[t].pc = "insert_locked"
    /\ LET maybe_vid == VidsGet(th[t].id) IN
       th' = [th EXCEPT ![t] =
                IF maybe_vid = NoVid /\ th[t].id \in DOMAIN vids
                THEN Return(t, InsertError)
                ELSE IF maybe_vid = NoVid
                THEN [th[t] EXCEPT !.pc = "add_len", !.fresh = TRUE]
                ELSE [th[t] EXCEPT !.pc = "insert_replace", !.vid = maybe_vid]]
    /\ UNCHANGED <<requested, built, capacity, items, len, vids, effective_len,
                   handed, touched, last, order, calls>>

\* get, under its read guard: the look-up and get_mut; the guard is dropped.
LockGet(t) ==
    /\ th[t].pc = "get_locked"
    /\ LET r == GetResult(th[t].id) IN
       /\ th' = [th EXCEPT ![t] = Return(t, r)]
       /\ handed' = IF r.kind = "Some" THEN handed \cup {<<th[t].id, r.pos>>} ELSE handed
    /\ UNCHANGED <<requested, built, capacity, items, len, vids, effective_len,
                   touched, last, order, calls>>

\* get_or_reserve: self.get(id) under get's read guard, which is dropped when
\* get returns; Some(entry) => Ok(entry), None => self.add(id, None).
LockGetOrReserve(t) ==
    /\ th[t].pc = "gor_locked"
    /\ LET r == GetResult(th[t].id) IN
       /\ th' = [th EXCEPT ![t] =
                   IF r.kind = "Some" THEN Return(t, Ok(r.pos))
                   ELSE [th[t] EXCEPT !.pc = "add_len", !.item = None, !.fresh = TRUE]]
       /\ handed' = IF r.kind = "Some" THEN handed \cup {<<th[t].id, r.pos>>} ELSE handed
    /\ UNCHANGED <<requested, built, capacity, items, len, vids, effective_len,
                   touched, last, order, calls>>

\* add: effective_len.fetch_add(1); the call reaches vids.write().
LockAddCount(t) ==
    /\ th[t].pc = "add_insert"
    /\ effective_len' = effective_len + 1
    /\ th' = [th EXCEPT ![t].pc = "vids_write"]
    /\ UNCHANGED <<requested, built, capacity, items, len, vids, handed, touched,
                   last, order, calls>>

\* self.vids.write() returns its guard.
LockWrite(t) ==
    /\ th[t].pc = "vids_write"
    /\ CanWrite(t)
    /\ th' = [th EXCEPT ![t].pc = "vids_insert"]
    /\ UNCHANGED <<requested, built, capacity, items, len, vids, effective_len,
                   handed, touched, last, order, calls>>

\* .insert(id, vid) under the write guard, dropped at the end of the statement.
LockAddInsert(t) ==
    /\ th[t].pc = "vids_insert"
    /\ vids' = VidsInsert(th[t].id, th[t].vid)
    /\ order' = IF th[t].id \in DOMAIN vids THEN order ELSE Append(order, th[t].id)
    /\ th' = [th EXCEPT ![t].pc = "add_entry"]
    /\ UNCHANGED <<requested, built, capacity, items, len, effective_len, handed,
                   touched, last, calls>>

\* add: Ok(Entry(self.items.get_mut(vid).unwrap()))
LockAddEntry(t) ==
    /\ th[t].pc = "add_entry"
    /\ IF GetMut(th[t].vid, len) = NoVid
       THEN /\ th' = [th EXCEPT ![t] = Return(t, Panicked)]
            /\ UNCHANGED <<handed, last>>
       ELSE /\ th' = [th EXCEPT ![t] = Return(t, Ok(th[t].vid))]
            /\ handed' = handed \cup {<<th[t].id, th[t].vid>>}
            /\ last' = IF th[t].op = "insert"
                       THEN [last EXCEPT ![th[t].id] = th[t].item]
                       ELSE last
    /\ UNCHANGED <<requested, built, capacity, items, len, vids, effective_len,
                   touched, order, calls>>

\* iter() takes no lock: Iter::new loads the length.
LockIterNew(t) ==
    /\ LockReady(t)
    /\ th' = [th EXCEPT ![t] =
                [Idle EXCEPT !.op = "iter", !.pc = "iter_next", !.ilen = len]]
    /\ calls' = calls + 1
    /\ UNCHANGED <<requested, built, capacity, items, len, vids, effective_len,
                   handed, touched, last, order>>

\* The steps of thread t with the lock explicit.
LockStep(t) ==
    \/ \E item \in Items : LockCall(t, "insert", ItemId(item), item)
    \/ \E id \in Ids : LockCall(t, "get", id, None)
    \/ \E id \in Ids : LockCall(t, "get_or_reserve", id, None)
    \/ LockRead(t)
    \/ LockInsertLookup(t)
    \/ LockGet(t)
    \/ LockGetOrReserve(t)
    \/ InsertReplace(t)
    \/ AddLen(t)
    \/ PushLen(t)
    \/ PushWrite(t)
    \/ PushInc(t)
    \/ LockAddCount(t)
    \/ LockWrite(t)
    \/ LockAddInsert(t)
    \/ LockAddEntry(t)
    \/ LockIterNew(t)
    \/ IterNext(t)

LockNext == \E t \in Threads : LockStep(t)

\* Every thread that can take a step is scheduled again, and a thread waiting
\* in read() or write() is admitted once the lock stays free.
LockSpec ==
    /\ Init
    /\ [][LockNext]_vars
    /\ \A t \in Threads : WF_vars(LockStep(t))

\* ===================================================================== claims
Done(t) == th[t].pc = "done"
\* The call thread t returned from registered a new id (it went through add).
DoneFresh(t) == Done(t) /\ th[t].fresh /\ th[t].op \in {"insert", "get_or_reserve"}
\* What a read through the Entry that get(k) returns can see.
GetReads(k) == IF GetResult(k).kind = "Some" THEN Reads(GetResult(k).pos) ELSE {}

\* C1 (SeqSpec).  Insert-then-get: in a sequential history, once a write to
\* id k has completed (insert(item) returned Ok, for a new or a registered k)
\* and until the next write to k, get(k) returns an Entry and a read through
\* it sees exactly what that write installed; a get(k) that has just returned
\* returned such an Entry.
C1_InsertThenGet ==
    /\ \A k \in Ids : last[k] # NoWrite => GetReads(k) = {last[k]}
    /\ \A t \in Threads :
          (Done(t) /\ th[t].op = "get" /\ last[th[t].id] # NoWrite)
              => /\ th[t].res.kind = "Some"
                 /\ Reads(th[t].res.pos) = {last[th[t].id]}

\* C1 witness: get(k) has returned for an id k # 0 that was registered and
\* then inserted again (two counted operations, one position), and the latest
\* write to k installed an item.
C1_Witness ==
    /\ Done(1) /\ th[1].op = "get" /\ th[1].id # 0 /\ th[1].res.kind = "Some"
    /\ order = <<th[1].id>> /\ effective_len = 2 /\ last[0] = NoWrite
    /\ last[th[1].id].tag = "Some"

\* C2 (Spec).  Concurrent inserts of distinct new ids are not lost: when two
\* inserts that both found their id unregistered have both returned Ok, and
\* nothing was written to either id since, get(a.id) reads a and get(b.id)
\* reads b.
C2_ConcurrentInsertsKept ==
    \A t, u \in Threads :
        (/\ t # u
         /\ DoneFresh(t) /\ th[t].op = "insert" /\ th[t].res.kind = "Ok"
         /\ DoneFresh(u) /\ th[u].op = "insert" /\ th[u].res.kind = "Ok"
         /\ th[t].id # th[u].id
         /\ last[th[t].id] = th[t].item /\ last[th[u].id] = th[u].item)
            => /\ GetReads(th[t].id) = {th[t].item}
               /\ GetReads(th[u].id) = {th[u].item}

\* C3 (Spec).  An id other than 0 for which insert and get_or_reserve were
\* never called is not in the store: get(id) returns None, whatever was done
\* with other ids, and every get(id) that has returned returned None.
C3_UnknownIdNotFound ==
    /\ \A k \in Ids \ ({0} \cup touched) : GetResult(k) = NoneEntry
    /\ \A t \in Threads :
          (Done(t) /\ th[t].op = "get" /\ th[t].id \notin ({0} \cup touched))
              => th[t].res = NoneEntry

\* C3 witness: get has returned None for an untouched id while another id is
\* registered.
C3_Witness ==
    \E t \in Threads :
        /\ Done(t) /\ th[t].op = "get" /\ th[t].id \notin ({0} \cup touched)
        /\ th[t].res = NoneEntry
        /\ Len(order) >= 1

\* C4 (SeqSpec).  Replace visibility: insert of an item whose id is already
\* registered (inserted or only reserved) returns Ok, and every Entry handed
\* out for that id, before or by this call, reads the new item; in general an
\* Entry for id k reads what the latest completed write to k installed.
C4_ReplaceVisible ==
    /\ \A t \in Threads :
          (Done(t) /\ th[t].op = "insert" /\ ~th[t].fresh)
              => /\ th[t].res.kind = "Ok"
                 /\ \A e \in handed : e[1] = th[t].id => Reads(e[2]) = {th[t].item}
    /\ \A e \in handed : last[e[1]] # NoWrite => Reads(e[2]) = {last[e[1]]}

\* C4 witness: a second counted operation on the only registered id k # 0 was
\* an insert that found k registered and returned; an Entry for k is held.
C4_Witness ==
    /\ Done(1) /\ th[1].op = "insert" /\ ~th[1].fresh /\ th[1].id # 0
    /\ order = <<th[1].id>> /\ effective_len = 2
    /\ <<th[1].id, th[1].res.pos>> \in handed

\* Number of registered ids other than 0.
NewIds == Cardinality(DOMAIN vids \ {0})

\* C5 (SeqSpec).  get_or_reserve idempotence: every Entry handed out for an
\* id is the slot the index maps the id to, so two Entries for one id alias;
\* a get_or_reserve that found the id returns that slot; between calls there
\* is exactly one arena position per registered id, so the second call made
\* none; and an Entry reads None until something is written through its id.
C5_ReserveIdempotent ==
    /\ \A e \in handed : e[2] = VidsGet(e[1])
    /\ \A t \in Threads :
          (Done(t) /\ th[t].op = "get_or_reserve" /\ ~th[t].fresh)
              => th[t].res = Ok(VidsGet(th[t].id))
    /\ (\A t \in Threads : th[t].pc \in {"idle", "done"}) => len = Cardinality(DOMAIN vids)
    /\ \A e \in handed : last[e[1]] = NoWrite => Reads(e[2]) = {None}

\* C5 witness: get_or_reserve has returned for an id k # 0 that it found
\* registered and that nothing was written through: the second of two
\* get_or_reserve(k).
C5_Witness ==
    /\ Done(1) /\ th[1].op = "get_or_reserve" /\ ~th[1].fresh /\ th[1].id # 0
    /\ th[1].res.kind = "Ok" /\ last[th[1].id] = NoWrite
    /\ order = <<th[1].id>> /\ len = 2

\* C6 (Spec).  Reservation is atomic: when two calls (insert or
\* get_or_reserve) that both found the same id unregistered have both
\* returned Ok, they returned Entries for one slot and the arena holds one
\* position per registered id.
C6_ReservationAtomic ==
    \A t, u \in Threads :
        (/\ t # u /\ DoneFresh(t) /\ DoneFresh(u)
         /\ th[t].id = th[u].id
         /\ th[t].res.kind = "Ok" /\ th[u].res.kind = "Ok")
            => /\ th[t].res.pos = th[u].res.pos
               /\ len = Cardinality(DOMAIN vids)

C8_CapacityErrorChangesNothing ==
    [][\A t \in Threads :
          (\/ th'[t].pc \in {"add_len", "push_len"}
           \/ (th[t].pc = "push_len" /\ th'[t].res.kind = "CapacityExceeded"))
              => /\ UNCHANGED <<items, len, vids, effective_len>>
                 /\ \A k \in Ids : GetResult(k)' = GetResult(k) /\ GetReads(k)' = GetReads(k)]_vars

\* C8 witness: a call failed with CapacityExceeded in a store that holds an
\* item under a registered id.
C8_Witness ==
    /\ DoneFresh(1) /\ th[1].res.kind = "CapacityExceeded"
    /\ \E k \in DOMAIN vids : k # 0 /\ last[k].tag = "Some" /\ GetReads(k) = {last[k]}

\* The iteration thread t finished yielded one element per registered id
\* after the first, in the order the ids were registered, each as get reads it.
IterYieldsInOrder(t) ==
    /\ Len(th[t].out) = 1 + Len(order)
    /\ Len(th[t].out) = len
    /\ \A j \in 1..Len(order) : GetReads(order[j]) = {th[t].out[j + 1]}

\* C9 (SeqSpec).  Iteration order: a finished iter() yielded one element per
\* arena position in the order of first insert or reservation, whatever the
\* ids are, starting with the empty zero element and with None for slots only
\* reserved.
C9_IterationOrder ==
    \A t \in Threads :
        (Done(t) /\ th[t].op = "iter") => (IterYieldsInOrder(t) /\ th[t].out[1] = None)

\* C10 (Spec).  Iterator length snapshot: iter() stores the arena length n of
\* the moment it is called; each next() yields the cell at the next position
\* and leaves n alone; the iterator ends after exactly n elements, whatever
\* the arena length has become meanwhile.
C10_IterLengthSnapshot ==
    /\ [](\A t \in Threads : th[t].op = "iter" =>
            /\ th[t].pc = "iter_next" => (Len(th[t].out) = th[t].idx /\ th[t].idx <= th[t].ilen)
            /\ Done(t) => Len(th[t].out) = th[t].ilen)
    /\ [][\A t \in Threads :
            /\ (th[t].pc \in {"idle", "done"} /\ th'[t].pc = "iter_next")
                  => (th'[t].ilen = len /\ th'[t].out = <<>>)
            /\ (th[t].pc = "iter_next" /\ th'[t] # th[t])
                  => /\ th'[t].ilen = th[t].ilen
                     /\ th'[t].pc = "iter_next" =>
                           /\ Len(th'[t].out) = Len(th[t].out) + 1
                           /\ th'[t].out[Len(th'[t].out)] \in Reads(Len(th[t].out))]_vars

\* C10 witness: an iterator has yielded all n elements of its snapshot while
\* the arena has grown past n; its next step ends it.
C10_Witness ==
    \E t \in Threads :
        /\ th[t].pc = "iter_next" /\ th[t].idx = th[t].ilen /\ Len(th[t].out) = th[t].ilen
        /\ len > th[t].ilen

\* C11 (Spec).  Mapping stability: a step of any call leaves every identifier
\* the index maps mapped to the same position.
C11_MappingStable ==
    [][\A k \in DOMAIN vids : k \in DOMAIN vids' /\ vids'[k] = vids[k]]_vars

\* C12 (Spec).  Arena length: no step decreases the length, and the length
\* stays within 0..capacity, before and after every step.
C12_LengthBounded ==
    [][/\ 0 <= len /\ len <= capacity
       /\ len' >= len
       /\ len' <= capacity']_vars

\* C13 (Spec).  Initialized prefix: every position below the length is a cell
\* of the allocation that a push has written, and no Entry handed out and no
\* element an iterator yielded lies at or above the length.
C13_InitializedPrefix ==
    /\ \A p \in 0..(len - 1) : p \in DOMAIN items /\ items[p] # Uninit
    /\ \A e \in handed : e[2] < len
    /\ \A t \in Threads : th[t].op = "iter" => Len(th[t].out) <= len

\* C14 (SeqSpec).  Permanent sentinel: after any sequence of store and Entry
\* operations get(0) returns the Entry of position 0 and reads None.
C14_SentinelPermanent ==
    built => (GetResult(0) = SomeEntry(0) /\ Reads(0) = {None})

\* C15 (SeqSpec).  Failed update leaves the slot unchanged: a step in which
\* Entry::update returns UpdateError leaves every cell as it was before the
\* call, whatever the closure did to its argument.
C15_FailedUpdateUnchanged ==
    [][\A t \in Threads :
          (/\ calls' = calls + 1
           /\ th'[t].op = "update" /\ th'[t].res = UpdateError
           /\ \A u \in Threads \ {t} : th'[u] = th[u])
              => items' = items]_vars

\* C16 (SeqSpec).  Snapshot independence: what was obtained by reading an
\* Entry before a step (the reference deref returned) shows after the step
\* what it showed before it, whatever the step replaced.
C16_SnapshotIndependent ==
    [][\A e \in handed : Reads(Deref(e))' = Reads(Deref(e))]_vars

\* C17 (Spec).  No partial commit: while a call is registering a new id, no
\* other thread sees the new slot counted by the arena length (its iterator
\* has yielded that position) while get of the id returns nothing; and no id
\* is found by get at a position the length does not count.
C17_NoPartialCommit ==
    /\ \A t, u \in Threads :
          (/\ t # u
           /\ th[t].pc = "add_insert"
           /\ th[u].op = "iter" /\ Len(th[u].out) > th[t].plen)
              => GetResult(th[t].id).kind = "Some"
    /\ \A k \in DOMAIN vids : vids[k] < len

\* The complete values the replace calls started so far install.
Installed == {th[t].item : t \in {u \in Threads : th[u].op = "replace"}}

\* C18 (RaceSpec).  Whole-snapshot reads under concurrent replacement: every
\* read through an Entry returned empty or one of the complete values being
\* installed, never a mixture, and once all the writers have finished the
\* slot holds the value of one of them.
C18_WholeSnapshots ==
    /\ \A t \in Threads :
          (Done(t) /\ th[t].op = "deref") => th[t].item \in {None} \cup Installed
    /\ (\A t \in Threads : Done(t) /\ th[t].op = "replace")
          => \A e \in handed : View(items[Deref(e)]) \in Installed

\* Thread t is in a call that has not returned yet.
InCall(t) == th[t].pc \notin {"idle", "done"}

\* C19 (LockSpec).  Readers are not blocked by registration: while another
\* thread is between its push and its index insertion, a get that has reached
\* vids.read() is admitted at once, except during the insertion statement
\* itself, which ends without waiting for anything; and every get of a
\* registered id that is at vids.read() while another thread is registering a
\* new id completes and returns an Entry.
C19_ReadersNotBlocked ==
    /\ [](\A t, u \in Threads :
            (/\ t # u
             /\ th[t].pc \in {"add_insert", "vids_write"}
             /\ th[u].pc = "vids_read" /\ th[u].op = "get")
                => ENABLED LockRead(u))
    /\ \A u \in Threads :
          (/\ th[u].pc = "vids_read" /\ th[u].op = "get" /\ th[u].id \in DOMAIN vids
           /\ \E t \in Threads \ {u} :
                 th[t].pc \in {"add_insert", "vids_write", "vids_insert"})
             ~> (Done(u) /\ th[u].op = "get" /\ th[u].res.kind = "Some")

\* C19 witness: a get of a registered id holds its read guard while the other
\* thread, its slot appended, has not inserted into the index yet.
C19_Witness ==
    \E t, u \in Threads :
        /\ t # u
        /\ th[t].pc \in {"add_insert", "vids_write"}
        /\ th[u].pc = "get_locked" /\ th[u].id \in DOMAIN vids

\* C20 (LockSpec).  Every call completes: under fair scheduling every started
\* call (insert, get, get_or_reserve, iter) returns a result or an error, none
\* panics, and no call waits for the write lock while it holds a read guard.
C20_EveryCallCompletes ==
    /\ [](\A t \in Threads :
            /\ th[t].pc = "vids_write" => ~ReadHeld(t)
            /\ Done(t) => th[t].res.kind \notin {"none", "Panic"})
    /\ \A t \in Threads : InCall(t) ~> Done(t)

\* C20 witness: a call waits in vids.write() because the other thread holds a
\* read guard.
C20_Witness ==
    \E t, u \in Threads :
        /\ t # u
        /\ th[t].pc = "vids_write" /\ ~CanWrite(t)
        /\ ReadHeld(u)

\* C21 (SeqSpec).  CapacityExceeded is terminal: a call that registers a new
\* id fails with CapacityExceeded exactly when the arena is full at its
\* capacity test, and a full arena stays full; so after one such failure
\* every later insert or get_or_reserve of an unregistered id fails too, while
\* an insert of a registered id returns Ok and get of a registered id returns
\* its Entry.
C21_CapacityExceededTerminal ==
    [][/\ PushFull(len, capacity) => PushFull(len', capacity')
       /\ \A t \in Threads :
            /\ (th[t].pc = "push_len" /\ th'[t].pc # "push_len")
                  => (PushFull(len, capacity) <=> th'[t].res.kind = "CapacityExceeded")
            /\ (th[t].pc = "insert_replace" /\ th'[t].pc = "done")
                  => th'[t].res.kind = "Ok"
            /\ (calls' = calls + 1 /\ th'[t].op = "get" /\ th'[t].id \in DOMAIN vids)
                  => th'[t].res.kind = "Some"]_vars

\* C21 witness: a call for a new id failed with CapacityExceeded while another
\* id that was tried before it is not registered either: the second failure.
C21_Witness ==
    /\ DoneFresh(1) /\ th[1].res.kind = "CapacityExceeded"
    /\ Cardinality(touched \ DOMAIN vids) >= 2

C23_ErrorCarriesCapacity ==
    \A t \in Threads :
        th[t].res.kind = "CapacityExceeded" => th[t].res.cap = requested

\* C23 witness: a store built with new(2) has returned CapacityExceeded with
\* capacity 2 for a new id.
C23_Witness ==
    /\ requested = 2
    /\ DoneFresh(1) /\ th[1].op \in {"insert", "get_or_reserve"}
    /\ th[1].res = OtherCapacityExceeded(2)

\* C24 (SeqSpec).  In-place modification through an Entry: Entry::replace and
\* an Entry::update whose closure returned Ok, on an Entry obtained for id k,
\* change the cell of that Entry only; after them the same Entry and get(k)
\* read what was written, and the arena length and the index are unchanged.
C24_EntryWritesInPlace ==
    [][\A t \in Threads :
         (/\ calls' = calls + 1
          /\ th'[t].op \in {"replace", "update"}
          /\ th'[t].res.kind = "Ok")
         => LET p == th'[t].res.pos IN
            /\ len' = len
            /\ vids' = vids
            /\ DOMAIN items' = DOMAIN items
            /\ \A q \in DOMAIN items \ {p} : items'[q] = items[q]
            /\ \E e \in handed : Deref(e) = p
            /\ \A e \in handed :
                 Deref(e) = p =>
                    /\ Reads(Deref(e))' = {last'[e[1]]}
                    /\ GetReads(e[1])' = {last'[e[1]]}]_vars

\* C24 witness: replace through an Entry of a non-zero id has returned, and
\* get of that id reads what replace wrote.
C24_Witness ==
    /\ Done(1) /\ th[1].op = "replace" /\ th[1].res.kind = "Ok"
    /\ \E e \in handed :
         /\ e[1] # 0 /\ Deref(e) = th[1].res.pos
         /\ last[e[1]] \in Items
         /\ GetReads(e[1]) = {last[e[1]]}

\* Thread t is inside Array::push, between its load of len and its fetch_add.
InPush(t) == th[t].pc \in {"push_write", "push_inc"}
\* No two threads are inside Array::push at once.
PushExclusive == \A t, u \in Threads : t # u => ~(InPush(t) /\ InPush(u))

\* C25 (LockSpec).  Push serialization: a thread registering a new id holds
\* the write guard of the index from the arena push to the index insertion,
\* so no two threads are inside the push sequence (between reading the length
\* and advancing it) at once.
C25_PushSerialized ==
    /\ \A t \in Threads :
         th[t].pc \in {"push_len", "push_write", "push_inc"} => WriteHeld(t)
    /\ PushExclusive

\* C26 (SeqSpec).  Frame of a replacing insert: the step that completes an
\* insert of an item whose id has a position stores the item in that one cell
\* and adds one to effective_len; the arena length, the capacity, the index
\* and every other cell are unchanged, and the Entry returned is that cell.
C26_ReplacingInsertFrame ==
    [][\A t \in Threads :
         (th[t].pc = "insert_replace" /\ th'[t].pc = "done")
         => /\ th[t].id \in DOMAIN vids
            /\ LET p == vids[th[t].id] IN
               /\ th'[t].res = Ok(p)
               /\ items' = [items EXCEPT ![p] = th[t].item]
               /\ effective_len' = effective_len + 1
               /\ len' = len
               /\ capacity' = capacity
               /\ vids' = vids]_vars

\* C26 witness: an insert of a registered non-zero id has returned while
\* another cell holds an item of its own.
C26_Witness ==
    /\ Done(1) /\ th[1].op = "insert" /\ ~th[1].fresh /\ th[1].res.kind = "Ok"
    /\ th[1].id # 0
    /\ items[th[1].res.pos] = th[1].item
    /\ \E q \in DOMAIN items : q # th[1].res.pos /\ items[q] \in Items

\* The step of thread t completes an insert (of a new or a registered id) with
\* Ok, or a get_or_reserve that created a slot.
CountedStep(t) ==
    /\ th[t].pc \in {"insert_replace", "add_insert"}
    /\ th'[t].pc = "done"
    /\ th'[t].res.kind = "Ok"

\* C27 (SeqSpec).  effective_len (0 in a new store) never decreases and grows by
\* exactly one on each step that completes a successful insert (new or
\* replacing) or a get_or_reserve that created a slot; every other step - get,
\* iter, get_or_reserve of a registered id, a failing call, Entry::replace and
\* Entry::update - leaves it unchanged.  So it counts those calls, not the
\* distinct ids.
C27_EffectiveLenCounts ==
    [][/\ effective_len' >= effective_len
       /\ effective_len' = effective_len
             + (IF \E t \in Threads : CountedStep(t) THEN 1 ELSE 0)]_vars

\* C27 witness: after a replacing insert returned, effective_len exceeds the
\* number of registered ids.
C27_Witness ==
    /\ Done(1) /\ th[1].op = "insert" /\ ~th[1].fresh /\ th[1].res.kind = "Ok"
    /\ effective_len > NewIds
    /\ NewIds >= 1

\* C28 (Spec).  Index values are in bounds: in every reachable state, under
\* any interleaving, every position in the index is below the arena length;
\* so no insert returned InsertError, no add failed to resolve the position
\* it registered, and get of every registered id returns an Entry.
C28_IndexInBounds ==
    /\ \A k \in DOMAIN vids : vids[k] < len
    /\ \A t \in Threads : th[t].res.kind \notin {"InsertError", "Panic"}
    /\ \A k \in DOMAIN vids : GetResult(k).kind = "Some"

\* C28 witness: two threads are registering new ids at once, one of them
\* already registered, the other still inside its push.
C28_Witness ==
    /\ \E t \in Threads : th[t].pc \in {"push_write", "push_inc", "add_insert"}
    /\ \E k \in DOMAIN vids : k # 0 /\ vids[k] = len - 1

\* No call is in progress.
Quiescent == \A t \in Threads : ~InCall(t)

\* C29 (Spec).  The index is a bijection onto the arena: in every state with
\* no call in progress, distinct ids map to distinct positions and the mapped
\* positions are exactly 0..len-1.
C29_IndexBijection ==
    Quiescent =>
        /\ \A j, k \in DOMAIN vids : j # k => vids[j] # vids[k]
        /\ {vids[k] : k \in DOMAIN vids} = 0..(len - 1)

\* C30 (Spec).  Registered position equals pushed position: under any
\* interleaving, the position a call is about to record in the index (the
\* length add read before its push) is the cell its push wrote.
C30_RegisteredIsPushed ==
    \A t \in Threads :
        th[t].pc \in {"push_inc", "add_insert"} => th[t].vid = th[t].plen

\* The step of thread t belongs to a get, to an iter (its creation or one of
\* its next() calls) or to a get_or_reserve that found its id registered.
\* (A call that repeats the previous one leaves the thread's record as it was;
\* it is the step of t when no other thread has made a call.)
ReadStep(t) ==
    /\ \/ th'[t] # th[t]
       \/ /\ calls' = calls + 1 /\ th' = th /\ th[t].pc = "done"
          /\ \A u \in Threads \ {t} : th[u].pc = "idle"
    /\ \/ th'[t].op \in {"get", "iter"}
       \/ th'[t].op = "get_or_reserve" /\ ~th'[t].fresh

\* C31 (SeqSpec).  Reads are pure: every step of get(id), of iter() and its
\* iteration, and of get_or_reserve(id) for a registered id leaves the arena
\* length, the index, the content of every cell (a populated cell is not reset
\* to None) and effective_len unchanged.
C31_ReadsArePure ==
    [][\A t \in Threads :
         ReadStep(t) => /\ len' = len
                        /\ vids' = vids
                        /\ items' = items
                        /\ effective_len' = effective_len
                        /\ capacity' = capacity]_vars

\* C31 witness: an iteration has ended after yielding an item, and the cell
\* still holds that item.
C31_Witness ==
    /\ Done(1) /\ th[1].op = "iter" /\ th[1].res = IterEnd
    /\ \E p \in 1..(len - 1) :
         /\ p + 1 \in DOMAIN th[1].out
         /\ items[p] \in Items
         /\ th[1].out[p + 1] = items[p]

====
